---- MODULE Spec2Model ----
(***************************************************************************)
(* Model of src/rules/jsxCurlySpacingRule.ts (tslint-react).              *)
(*                                                                         *)
(* A source text is a sequence of one-character strings.  A syntax tree   *)
(* is the sequence of the nodes the walker's three handlers are called    *)
(* on, in document order; a node is [kind, start, text] (what getStart    *)
(* and getText give).  Offsets are 0-based as in the code; sequence       *)
(* indices are 1-based.                                                    *)
(***************************************************************************)
EXTENDS Integers, Sequences, FiniteSets, TLC

VARIABLES options, nodes, pc, failures, threw, lastIndex, run, prevFailures

vars == <<options, nodes, pc, failures, threw, lastIndex, run, prevFailures>>

-----------------------------------------------------------------------------
(* Bounds *)

MaxRest == 5      \* characters after the "{" of a stand-alone expression text
MaxStart == 1     \* largest start offset of a stand-alone expression node
MaxDepth == 1     \* nesting depth of the element chain (0 = one element)
MaxSpreads == 2   \* spread attributes in one tree
MaxRuns == 2      \* times Rule.apply is run on the same tree

-----------------------------------------------------------------------------
(* Constants of the rule *)

OPTION_ALWAYS == "always"
OPTION_NEVER == "never"
ALWAYS_FAILURE_STRING == "Curly braces should always have spaces inside"
NEVER_FAILURE_STRING == "Curly braces should never have spaces inside"

-----------------------------------------------------------------------------
(* Character classes of the regular expressions *)

IsSpace(c) == c \in {" ", "\n"}          \* \s
IsNotSpace(c) == ~IsSpace(c)             \* \S and [^\s]
IsWordOrDot(c) == c \in {"a", "b", "."}  \* [\w\.]

AllSpace(t, i, j) == \A k \in i..j : IsSpace(t[k])   \* \s* over t[i..j]

\* (\n\s*)? over t[i..j]
OptNewlineIndent(t, i, j) == i > j \/ (t[i] = "\n" /\ AllSpace(t, i + 1, j))

-----------------------------------------------------------------------------
(* The three patterns *)

\* variant: /^\{[\s\S]*?(?:\s|(?:\n\s*))}$/, the opening whitespace not required
\* on its own, so that one whitespace character serves both braces
spacedBracesRegex_SharedSpace(t) ==
    LET n == Len(t) IN
    \E k \in 2..(n - 1) :
        /\ t[1] = "{"
        /\ \/ (IsSpace(t[k]) /\ k = n - 1)
           \/ (t[k] = "\n" /\ AllSpace(t, k + 1, n - 1))
        /\ t[n] = "}"

\* /^\{(?:\s|\n)[\s\S]*?(?:\s|(?:\n\s*))}$/
spacedBracesRegex(t) ==
    LET n == Len(t) IN
    \E k \in 3..(n - 1) :
        /\ t[1] = "{"
        /\ (IsSpace(t[2]) \/ t[2] = "\n")
        /\ \/ (IsSpace(t[k]) /\ k = n - 1)
           \/ (t[k] = "\n" /\ AllSpace(t, k + 1, n - 1))
        /\ t[n] = "}"

\* variant: /^(\{(\S[\s\S]*?)[^\s](\n\s*)?})$/, no leading newline and indentation
spacelessBracesRegex_NoLeadingNewline(t) ==
    LET n == Len(t) IN
    \E j \in 3..(n - 1) :
        /\ t[1] = "{"
        /\ IsNotSpace(t[2])
        /\ IsNotSpace(t[j])
        /\ OptNewlineIndent(t, j + 1, n - 1)
        /\ t[n] = "}"

\* /^(\{((\n\s*)?(\S[\s\S]*?))[^\s](\n\s*)?})$/
spacelessBracesRegex(t) ==
    LET n == Len(t) IN
    \E i \in 2..(n - 1) : \E j \in (i + 1)..(n - 1) :
        /\ t[1] = "{"
        /\ OptNewlineIndent(t, 2, i - 1)
        /\ IsNotSpace(t[i])
        /\ IsNotSpace(t[j])
        /\ OptNewlineIndent(t, j + 1, n - 1)
        /\ t[n] = "}"

RECURSIVE SkipSpace(_, _)
SkipSpace(t, p) == IF p <= Len(t) /\ IsSpace(t[p]) THEN SkipSpace(t, p + 1) ELSE p

RECURSIVE SkipWordOrDot(_, _)
SkipWordOrDot(t, p) ==
    IF p <= Len(t) /\ IsWordOrDot(t[p]) THEN SkipWordOrDot(t, p + 1) ELSE p

\* /\{\s*\.{3}[\w\.]*\s*}/ tried at index p: the index of the closing brace, or 0
spreadRegExAt(t, p) ==
    IF p > Len(t) \/ t[p] # "{" THEN 0
    ELSE LET q1 == SkipSpace(t, p + 1) IN
         IF q1 + 2 > Len(t) \/ ~(t[q1] = "." /\ t[q1 + 1] = "." /\ t[q1 + 2] = ".")
         THEN 0
         ELSE LET q3 == SkipSpace(t, SkipWordOrDot(t, q1 + 3)) IN
              IF q3 <= Len(t) /\ t[q3] = "}" THEN q3 ELSE 0

\* one exec of the global regex from lastIndex li (0-based)
RegExpExec(t, li) ==
    LET hits == {p \in (li + 1)..Len(t) : spreadRegExAt(t, p) > 0} IN
    IF hits = {}
    THEN [found |-> FALSE, index |-> -1, match |-> <<>>, lastIndex |-> 0]
    ELSE LET p == CHOOSE x \in hits : \A y \in hits : x <= y
             e == spreadRegExAt(t, p)
         IN [found |-> TRUE, index |-> p - 1, match |-> SubSeq(t, p, e),
             lastIndex |-> e]

RECURSIVE ExecLoop(_, _)
ExecLoop(t, li) ==
    LET r == RegExpExec(t, li) IN
    IF r.found THEN <<r>> \o ExecLoop(t, r.lastIndex) ELSE <<>>

\* text.match(regex) with the g flag: lastIndex is set to 0, exec is repeated
\* until it fails (which leaves lastIndex 0); null when nothing matched
StringMatch(t, li) ==
    LET rs == ExecLoop(t, 0) IN
    [isNull |-> rs = <<>>,
     list |-> [i \in 1..Len(rs) |-> rs[i].match],
     lastIndex |-> 0]

\* text.indexOf(m)
IndexOf(t, m) ==
    LET at == {i \in 0..(Len(t) - Len(m)) : SubSeq(t, i + 1, i + Len(m)) = m} IN
    IF at = {} THEN -1 ELSE CHOOSE x \in at : \A y \in at : x <= y

-----------------------------------------------------------------------------
(* The walker *)

\* this.hasOption(o): o is among the configured option tokens
hasOption(opts, o) == \E i \in DOMAIN opts : opts[i] = o

createFailure(start, width, message) ==
    [start |-> start, width |-> width, message |-> message]

hasSpreadInJsx(text, li) ==
    LET r == StringMatch(text, li) IN
    [result |-> ~r.isNull, lastIndex |-> r.lastIndex]

getJsxSpreads(text, li) == StringMatch(text, li)

\* variant: the form "{ ..." left out of the list
isSkippableExpression_TwoForms(text) ==
    text \in {<<"{">>, <<"{", ".", ".", ".">>}

isSkippableExpression(text) ==
    text \in {<<"{">>, <<"{", ".", ".", ".">>, <<"{", " ", ".", ".", ".">>}

\* variant: the two branches in the other order
isValidExpression_NeverFirst(opts, text) ==
    LET always == hasOption(opts, OPTION_ALWAYS)
        never == hasOption(opts, OPTION_NEVER)
    IN IF never THEN spacelessBracesRegex(text)
       ELSE IF always THEN spacedBracesRegex(text)
       ELSE TRUE

isValidExpression(opts, text) ==
    LET always == hasOption(opts, OPTION_ALWAYS)
        never == hasOption(opts, OPTION_NEVER)
    IN IF always THEN spacedBracesRegex(text)
       ELSE IF never THEN spacelessBracesRegex(text)
       ELSE TRUE

\* variant: "always" taken as the default when no option is configured
visitJsxExpression_DefaultAlways(opts, node) ==
    LET never == hasOption(opts, OPTION_NEVER) /\ ~hasOption(opts, OPTION_ALWAYS)
        text == node.text
        valid == IF never THEN spacelessBracesRegex(text) ELSE spacedBracesRegex(text)
    IN IF ~isSkippableExpression(text) /\ ~valid
       THEN IF never
            THEN <<createFailure(node.start, Len(text), NEVER_FAILURE_STRING)>>
            ELSE <<createFailure(node.start, Len(text), ALWAYS_FAILURE_STRING)>>
       ELSE <<>>

\* the failures visitJsxExpression adds for one node
visitJsxExpression(opts, node) ==
    LET always == hasOption(opts, OPTION_ALWAYS)
        never == hasOption(opts, OPTION_NEVER)
        text == node.text
    IN IF ~isSkippableExpression(text) /\ ~isValidExpression(opts, text)
       THEN IF always
            THEN <<createFailure(node.start, Len(text), ALWAYS_FAILURE_STRING)>>
            ELSE IF never
                 THEN <<createFailure(node.start, Len(text), NEVER_FAILURE_STRING)>>
                 ELSE <<>>
       ELSE <<>>

\* the body of the forEach callback of handleJsxSpreadNode, over the match list
RECURSIVE forEachMatch(_, _, _)
forEachMatch(opts, node, matches) ==
    IF matches = <<>> THEN <<>>
    ELSE LET always == hasOption(opts, OPTION_ALWAYS)
             never == hasOption(opts, OPTION_NEVER)
             match == Head(matches)
             start == node.start + IndexOf(node.text, match)
             width == Len(match)
             added == IF ~isValidExpression(opts, match)
                      THEN IF always
                           THEN <<createFailure(start, width, ALWAYS_FAILURE_STRING)>>
                           ELSE IF never
                                THEN <<createFailure(start, width, NEVER_FAILURE_STRING)>>
                                ELSE <<>>
                      ELSE <<>>
         IN added \o forEachMatch(opts, node, Tail(matches))

\* handleJsxSpreadNode: .forEach on a null match list throws a TypeError
handleJsxSpreadNode(opts, node, li) ==
    LET r == getJsxSpreads(node.text, li) IN
    IF r.isNull
    THEN [failures |-> <<>>, threw |-> TRUE, lastIndex |-> r.lastIndex]
    ELSE [failures |-> forEachMatch(opts, node, r.list), threw |-> FALSE,
          lastIndex |-> r.lastIndex]

\* variant: handleJsxSpreadNode called without the hasSpreadInJsx test
visitJsxElement_Unguarded(opts, node, li) ==
    handleJsxSpreadNode(opts, node, hasSpreadInJsx(node.text, li).lastIndex)

visitJsxElement(opts, node, li) ==
    LET h == hasSpreadInJsx(node.text, li) IN
    IF h.result
    THEN handleJsxSpreadNode(opts, node, h.lastIndex)
    ELSE [failures |-> <<>>, threw |-> FALSE, lastIndex |-> h.lastIndex]

visitJsxSelfClosingElement(opts, node, li) ==
    LET h == hasSpreadInJsx(node.text, li) IN
    IF h.result
    THEN handleJsxSpreadNode(opts, node, h.lastIndex)
    ELSE [failures |-> <<>>, threw |-> FALSE, lastIndex |-> h.lastIndex]

-----------------------------------------------------------------------------
(* Inputs: option lists and syntax trees *)

OptionLists ==
    {<<>>, <<OPTION_ALWAYS>>, <<OPTION_NEVER>>,
     <<OPTION_ALWAYS, OPTION_NEVER>>, <<OPTION_NEVER, OPTION_ALWAYS>>}

\* stand-alone expression containers: "{" and any text of up to MaxRest characters
RestAlphabet == {"}", " ", "\n", ".", "a"}
ExprTexts ==
    {<<"{">> \o r : r \in UNION {[1..n -> RestAlphabet] : n \in 0..MaxRest}}
ExprTrees ==
    {<<[kind |-> "JsxExpression", start |-> s, text |-> t]>> :
        s \in 0..MaxStart, t \in ExprTexts}

\* spread attributes "{" pad "...a" pad "}"
Pads == {<<>>, <<" ">>}
SpreadForms ==
    {<<"{">> \o w1 \o <<".", ".", ".", "a">> \o w2 \o <<"}">> : w1 \in Pads, w2 \in Pads}

\* expression children of the innermost element
ExprChildren == {<<"{", "a", "b", "}">>, <<"{", " ", "a", "b", " ", "}">>}

\* a chain of elements nested depth deep; each spread sits on the element of
\* its level; the innermost element is self-closing or holds one expression
InnerChoices ==
    {[self |-> TRUE, child |-> <<>>]} \cup {[self |-> FALSE, child |-> c] : c \in ExprChildren}
SpreadLists(depth) ==
    UNION {{s \in [1..n -> [form : SpreadForms, level : 0..depth]] :
               \A i \in 1..(n - 1) : s[i].level <= s[i + 1].level} : n \in 0..MaxSpreads}
Shapes ==
    UNION {[depth : {d}, spreads : SpreadLists(d), inner : InnerChoices] : d \in 0..MaxDepth}

RECURSIVE AttrsAt(_, _)
AttrsAt(spreads, level) ==
    IF spreads = <<>> THEN <<>>
    ELSE (IF Head(spreads).level = level THEN <<" ">> \o Head(spreads).form ELSE <<>>)
         \o AttrsAt(Tail(spreads), level)

OpenTag(attrs) == <<"<", "a">> \o attrs \o <<">">>
CloseTag == <<"<", "/", "a", ">">>
SelfClosingTag(attrs) == <<"<", "a">> \o attrs \o <<"/", ">">>

RECURSIVE ElementText(_, _)
ElementText(sh, level) ==
    LET attrs == AttrsAt(sh.spreads, level) IN
    IF level = sh.depth
    THEN IF sh.inner.self THEN SelfClosingTag(attrs)
         ELSE OpenTag(attrs) \o sh.inner.child \o CloseTag
    ELSE OpenTag(attrs) \o ElementText(sh, level + 1) \o CloseTag

RECURSIVE ElementStart(_, _)
ElementStart(sh, level) ==
    IF level = 0 THEN 0
    ELSE ElementStart(sh, level - 1) + Len(OpenTag(AttrsAt(sh.spreads, level - 1)))

\* the nodes of a tree in document order
TreeNodes(sh) ==
    [i \in 1..(sh.depth + 1) |->
        [kind |-> IF i - 1 = sh.depth /\ sh.inner.self
                  THEN "JsxSelfClosingElement" ELSE "JsxElement",
         start |-> ElementStart(sh, i - 1),
         text |-> ElementText(sh, i - 1)]]
    \o (IF sh.inner.self THEN <<>>
        ELSE <<[kind |-> "JsxExpression",
                start |-> ElementStart(sh, sh.depth)
                          + Len(OpenTag(AttrsAt(sh.spreads, sh.depth))),
                text |-> sh.inner.child]>>)

ElementTrees == {TreeNodes(sh) : sh \in Shapes}

-----------------------------------------------------------------------------
(* The state machine: Rule.apply builds a walker, the host visits each node *)

InitWith(trees) ==
    /\ options \in OptionLists
    /\ nodes \in trees
    /\ pc = 1
    /\ failures = <<>>
    /\ threw = FALSE
    /\ lastIndex = 0
    /\ run = 1
    /\ prevFailures = <<>>

Init == InitWith(ElementTrees)
InitExpr == InitWith(ExprTrees)

Walking == pc <= Len(nodes) /\ ~threw

Step(r) ==
    /\ failures' = failures \o r.failures
    /\ threw' = r.threw
    /\ lastIndex' = r.lastIndex
    /\ pc' = pc + 1
    /\ UNCHANGED <<options, nodes, run, prevFailures>>

VisitJsxElement ==
    /\ Walking
    /\ nodes[pc].kind = "JsxElement"
    /\ Step(visitJsxElement(options, nodes[pc], lastIndex))

VisitJsxSelfClosingElement ==
    /\ Walking
    /\ nodes[pc].kind = "JsxSelfClosingElement"
    /\ Step(visitJsxSelfClosingElement(options, nodes[pc], lastIndex))

VisitJsxExpression ==
    /\ Walking
    /\ nodes[pc].kind = "JsxExpression"
    /\ Step([failures |-> visitJsxExpression(options, nodes[pc]), threw |-> FALSE,
             lastIndex |-> lastIndex])

\* variant: the walker of the run before is used again, with its failure list
Apply_ReusedWalker ==
    /\ pc > Len(nodes)
    /\ ~threw
    /\ run < MaxRuns
    /\ prevFailures' = failures
    /\ pc' = 1
    /\ run' = run + 1
    /\ UNCHANGED <<options, nodes, threw, lastIndex, failures>>

\* Rule.apply on the same source file again: a new walker, an empty failure list
Apply ==
    /\ pc > Len(nodes)
    /\ ~threw
    /\ run < MaxRuns
    /\ prevFailures' = failures
    /\ failures' = <<>>
    /\ pc' = 1
    /\ run' = run + 1
    /\ UNCHANGED <<options, nodes, threw, lastIndex>>

Next ==
    \/ VisitJsxElement
    \/ VisitJsxSelfClosingElement
    \/ VisitJsxExpression
    \/ Apply

Spec == Init /\ [][Next]_vars

NextExpr == VisitJsxExpression

SpecExpr == InitExpr /\ [][NextExpr]_vars

-----------------------------------------------------------------------------
(* Vocabulary of the properties *)

Always == hasOption(options, OPTION_ALWAYS)
Never == hasOption(options, OPTION_NEVER)
WalkDone == pc > Len(nodes)

IsElementKind(node) == node.kind \in {"JsxElement", "JsxSelfClosingElement"}

\* the spread matches of a text with their own positions (index is 0-based)
SpreadOccurrences(text) == ExecLoop(text, 0)

\* the text the finding f points at, relative to a node starting at start
Slice(text, start, f) == SubSeq(text, f.start - start + 1, f.start - start + f.width)

Count(seq, P(_)) == Cardinality({i \in DOMAIN seq : P(seq[i])})

-----------------------------------------------------------------------------
(* Stand-alone expression containers (SpecExpr): nodes[1] is the container *)

ExprVisited == pc > 1
ExprText == nodes[1].text

Braced(t) == Len(t) >= 2 /\ t[1] = "{" /\ t[Len(t)] = "}"
Interior(t) == SubSeq(t, 2, Len(t) - 1)

\* s[i..j] is a non-empty run: a newline, then whitespace only
NewlineRun(s, i, j) == i <= j /\ s[i] = "\n" /\ AllSpace(s, i + 1, j)

\* what is left of s between a and b, once a leading run s[1..a-1] and a
\* trailing run s[b+1..] are removed (each one run, or nothing), is non-empty
\* and begins and ends with a non-whitespace character
HugsAfterStripping(s) ==
    \E a \in 1..Len(s) : \E b \in a..Len(s) :
        /\ a = 1 \/ NewlineRun(s, 1, a - 1)
        /\ b = Len(s) \/ NewlineRun(s, b + 1, Len(s))
        /\ IsNotSpace(s[a])
        /\ IsNotSpace(s[b])

\* C1: under "never" alone, a braced text that is not a skipped form gets no
\* finding iff its interior, less one leading and one trailing newline run,
\* is non-empty (any length >= 1) and begins and ends with a non-whitespace
\* character; otherwise it gets exactly one finding with the never message.
C1_NeverContract ==
    (ExprVisited /\ Never /\ ~Always /\ Braced(ExprText)
        /\ ~isSkippableExpression(ExprText))
    => IF HugsAfterStripping(Interior(ExprText))
       THEN failures = <<>>
       ELSE Len(failures) = 1 /\ failures[1].message = NEVER_FAILURE_STRING

\* "{" ws ... ws "}" with two distinct whitespace characters
AlwaysShape(t) ==
    /\ Len(t) >= 4
    /\ t[1] = "{" /\ IsSpace(t[2])
    /\ IsSpace(t[Len(t) - 1]) /\ t[Len(t)] = "}"

\* C4: with "always" configured, a text that is not a skipped form gets no
\* finding iff it is "{", a whitespace character, any content, a further
\* whitespace character, "}"; otherwise exactly one finding at the node's
\* start, of the node's width, with the always message.
C4_AlwaysContract ==
    (ExprVisited /\ Always /\ ~isSkippableExpression(ExprText))
    => IF AlwaysShape(ExprText)
       THEN failures = <<>>
       ELSE failures = <<[start |-> nodes[1].start, width |-> Len(ExprText),
                          message |-> ALWAYS_FAILURE_STRING]>>

\* "{ }" under "always" has been visited and reported once
C4_Witness ==
    /\ ExprVisited
    /\ options = <<OPTION_ALWAYS>>
    /\ ExprText = <<"{", " ", "}">>
    /\ nodes[1].start = 1
    /\ Len(failures) = 1

\* C6: the texts "{", "{..." and "{ ..." never get a finding, whatever the
\* options; every other text is classified: it gets a finding exactly when
\* the pattern of the effective policy rejects it.
C6_SkippedForms ==
    ExprVisited
    => /\ ExprText \in {<<"{">>, <<"{", ".", ".", ".">>, <<"{", " ", ".", ".", ".">>}
            => failures = <<>>
       /\ ExprText \notin {<<"{">>, <<"{", ".", ".", ".">>, <<"{", " ", ".", ".", ".">>}
            => (failures # <<>>
                <=> \/ Always /\ ~spacedBracesRegex(ExprText)
                    \/ ~Always /\ Never /\ ~spacelessBracesRegex(ExprText))

\* "{ ..." has been visited under "always" (whose pattern rejects it), no finding
C6_Witness ==
    /\ ExprVisited
    /\ options = <<OPTION_ALWAYS>>
    /\ ExprText = <<"{", " ", ".", ".", ".">>
    /\ ~spacedBracesRegex(ExprText)
    /\ failures = <<>>

\* "{" newline ws* content newline ws* "}", content of >= 2 characters that
\* begins and ends with a non-whitespace character
MultiLineBody(t) ==
    \E i \in 3..(Len(t) - 2) : \E j \in (i + 1)..(Len(t) - 2) :
        /\ Braced(t)
        /\ NewlineRun(t, 2, i - 1)
        /\ IsNotSpace(t[i]) /\ IsNotSpace(t[j])
        /\ NewlineRun(t, j + 1, Len(t) - 1)

\* "{ content}" or "{content }": a space touches one brace, content (which
\* begins and ends with a non-whitespace character) touches the other
OneSidedSpace(t) ==
    /\ Braced(t) /\ Len(t) >= 4
    /\ \/ t[2] = " " /\ IsNotSpace(t[3]) /\ IsNotSpace(t[Len(t) - 1])
       \/ t[Len(t) - 1] = " " /\ IsNotSpace(t[2]) /\ IsNotSpace(t[Len(t) - 2])

-----------------------------------------------------------------------------
(* Walks of element trees (Spec) *)

VisitedElements == {i \in 1..(pc - 1) : i <= Len(nodes) /\ IsElementKind(nodes[i])}

Violates(text) == (Always \/ Never) /\ ~isValidExpression(options, text)

\* C2: every violating spread match found at index i of a visited element's
\* text has a finding at exactly (node start + i) of the match's width, so
\* the source sliced at the finding is the match at its own position.
C2_SpreadOffsets ==
    \A n \in VisitedElements :
        LET occ == SpreadOccurrences(nodes[n].text) IN
        \A k \in DOMAIN occ :
            Violates(occ[k].match)
            => \E x \in DOMAIN failures :
                   /\ failures[x].start = nodes[n].start + occ[k].index
                   /\ failures[x].width = Len(occ[k].match)

\* the findings that point at a spread of the file (nodes[1] is the root, at 0)
IsSpreadFinding(f) == spreadRegExAt(nodes[1].text, f.start + 1) = f.start + f.width

\* C3: after one complete walk the spreads of the file that violate the
\* policy have one finding each and the others none, so there are as many
\* spread findings as violating spread occurrences, at any nesting depth.
C3_OneFindingPerSpread ==
    WalkDone
    => LET occ == SpreadOccurrences(nodes[1].text) IN
       Count(failures, IsSpreadFinding)
           = Cardinality({k \in DOMAIN occ : Violates(occ[k].match)})

\* C5: with neither "always" nor "never" configured no finding is produced.
C5_UnspecifiedSilent ==
    (~Always /\ ~Never) => (failures = <<>> /\ prevFailures = <<>>)

\* a tree with a spread and an expression child has been walked with no option
C5_Witness ==
    /\ options = <<>>
    /\ WalkDone
    /\ nodes[Len(nodes)].kind = "JsxExpression"
    /\ SpreadOccurrences(nodes[1].text) # <<>>
    /\ failures = <<>>

\* C7: a second run on the same tree and options ends with the finding list
\* of the run before it, and the shared regex holds no match position
\* between visits.
C7_Idempotent ==
    /\ (run > 1 /\ WalkDone) => failures = prevFailures
    /\ lastIndex = 0

\* a second run has ended with two findings or more
C7_Witness == run > 1 /\ WalkDone /\ Len(failures) >= 2

\* C8: no visit throws; every match of a visited element's text is found
\* again by indexOf.
C8_NeverFails ==
    /\ ~threw
    /\ \A n \in VisitedElements :
           LET r == getJsxSpreads(nodes[n].text, 0) IN
           ~r.isNull => \A k \in DOMAIN r.list : IndexOf(nodes[n].text, r.list[k]) >= 0

\* an element without any spread and one with a violating spread were visited
C8_Witness ==
    /\ ~threw
    /\ \E n \in VisitedElements : getJsxSpreads(nodes[n].text, 0).isNull
    /\ \E n \in VisitedElements : ~getJsxSpreads(nodes[n].text, 0).isNull
    /\ failures # <<>>

\* what the handlers add for one node under the given options
FailuresOfNode(opts, node) ==
    IF node.kind = "JsxExpression" THEN visitJsxExpression(opts, node)
    ELSE IF node.kind = "JsxElement" THEN visitJsxElement(opts, node, 0).failures
    ELSE visitJsxSelfClosingElement(opts, node, 0).failures

RECURSIVE FailuresOfWalk(_, _)
FailuresOfWalk(opts, k) ==
    IF k = 0 THEN <<>>
    ELSE FailuresOfWalk(opts, k - 1) \o FailuresOfNode(opts, nodes[k])

\* C9: with both tokens configured, in either order, every finding carries
\* the always message and the finding list is the one "always" alone gives.
C9_BothMeansAlways ==
    (Always /\ Never)
    => /\ \A x \in DOMAIN failures : failures[x].message = ALWAYS_FAILURE_STRING
       /\ failures = FailuresOfWalk(<<OPTION_ALWAYS>>, pc - 1)

\* a walk under <<never, always>> has ended with findings
C9_Witness ==
    /\ options = <<OPTION_NEVER, OPTION_ALWAYS>>
    /\ WalkDone
    /\ Len(failures) >= 2

====
